---- MODULE Spec2Model ----
(***************************************************************************)
(* Model of the image detection package: ImageDetectionModel               *)
(* (model/model_handler.py) and the command line driver (model/detect.py). *)
(*                                                                         *)
(* A behaviour is about one image, `subject` (its form and whether it can  *)
(* be opened), and the pre-trained network's answer for its pixels,        *)
(* `network`: three aligned arrays (boxes, scores, labels).  The network   *)
(* is opaque, so any aligned arrays are possible answers.  Scores and      *)
(* thresholds are counted in units of 1/ScoreUnits: ScoreUnits is 1.0.     *)
(***************************************************************************)
EXTENDS Integers, Sequences, FiniteSets, TLC

VARIABLES subject, network, detector, call, cli

vars == <<subject, network, detector, call, cli>>

----------------------------------------------------------------------------
(* Bounds *)

MaxN == 2

ScoreUnits == 1

----------------------------------------------------------------------------
(* Values *)

None == "None"

DefaultModelName == "fasterrcnn_resnet50_fpn"

ModelNames == {DefaultModelName, "retinanet_resnet50_fpn"}

DeviceArgs == {None, "", "cpu", "cuda"}

LoadedModel == "fasterrcnn_resnet50_fpn(weights).eval()"

WeightsTransform == "weights.transforms()"

FallbackTransform == "transforms.ToTensor()"

UnsupportedModelError == "ValueError: Unsupported model"

UnsupportedImageTypeError == "ValueError: Unsupported image type"

IndexError == "IndexError: list index out of range"

FileNotFoundError == "FileNotFoundError"

UnidentifiedImageError == "PIL.UnidentifiedImageError"

NotCallableError == "TypeError: 'NoneType' object is not callable"

ClassNames ==
    <<
       "__background__", "person", "bicycle", "car", "motorcycle", "airplane",
       "bus", "train", "truck", "boat", "traffic light", "fire hydrant",
       "N/A", "stop sign", "parking meter", "bench", "bird", "cat",
       "dog", "horse", "sheep", "cow", "elephant", "bear",
       "zebra", "giraffe", "N/A", "backpack", "umbrella", "N/A",
       "N/A", "handbag", "tie", "suitcase", "frisbee", "skis",
       "snowboard", "sports ball", "kite", "baseball bat", "baseball glove", "skateboard",
       "surfboard", "tennis racket", "bottle", "N/A", "wine glass", "cup",
       "fork", "knife", "spoon", "bowl", "banana", "apple",
       "sandwich", "orange", "broccoli", "carrot", "hot dog", "pizza",
       "donut", "cake", "chair", "couch", "potted plant", "bed",
       "N/A", "dining table", "N/A", "N/A", "toilet", "N/A",
       "tv", "laptop", "mouse", "remote", "keyboard", "cell phone",
       "microwave", "oven", "toaster", "sink", "refrigerator", "N/A",
       "book", "clock", "vase", "scissors", "teddy bear", "hair drier",
       "toothbrush"
    >>

NumClasses == Len(ClassNames)

AcceptedTypes == {"str", "bytes", "ndarray", "Image"}

Scores == 0..ScoreUnits

Thresholds == -1..(ScoreUnits + 1)

Labels == {-1, 0, 1, NumClasses}

Box(i) == <<i - 1, i - 1, i, i>>

Preds ==
    UNION { { [boxes |-> [i \in 1..n |-> Box(i)], scores |-> s, labels |-> l] :
                s \in [1..n -> Scores], l \in [1..n -> Labels] } : n \in 0..MaxN }

Images ==
    { [type |-> "str", state |-> s, path |-> "image.jpg"] : s \in {"ok", "corrupt", "missing"} }
    \cup { [type |-> "bytes", state |-> s, path |-> ""] : s \in {"ok", "corrupt"} }
    \cup { [type |-> ty, state |-> "ok", path |-> ""] : ty \in {"ndarray", "Image", "int"} }

BlankObject == [device |-> None, model_name |-> None, model |-> None, transform |-> None]

(* Python truthiness of an optional string or handle: None and the empty   *)
(* string are false.                                                       *)
Truthy(value) == value # None /\ value # ""

Min(a, b) == IF a <= b THEN a ELSE b

----------------------------------------------------------------------------
(* ImageDetectionModel.__init__ and _load_model *)

ResolveDevice(device, cudaAvailable) ==
    IF Truthy(device) THEN device
    ELSE IF cudaAvailable THEN "cuda" ELSE "cpu"

LoadModelDefaults(self) ==
    [raised |-> None,
     self   |-> [self EXCEPT !.model = LoadedModel, !.transform = WeightsTransform]]

LoadModel(self) ==
    IF self.model_name = DefaultModelName
    THEN [raised |-> None,
          self   |-> [self EXCEPT !.model = LoadedModel, !.transform = WeightsTransform]]
    ELSE [raised |-> UnsupportedModelError, self |-> self]

New(model_name, device, cudaAvailable) ==
    LoadModel([device     |-> ResolveDevice(device, cudaAvailable),
               model_name |-> model_name,
               model      |-> None,
               transform  |-> None])

----------------------------------------------------------------------------
(* ImageDetectionModel.preprocess_image *)

ToRGBAnyType(image) ==
    IF image.type \in {"str", "bytes"} /\ image.state = "missing"
    THEN [raised |-> FileNotFoundError, img |-> None]
    ELSE IF image.type \in {"str", "bytes"} /\ image.state = "corrupt"
    THEN [raised |-> UnidentifiedImageError, img |-> None]
    ELSE [raised |-> None, img |-> "RGB"]

ToRGB(image) ==
    IF image.type = "str"
    THEN IF image.state = "missing" THEN [raised |-> FileNotFoundError, img |-> None]
         ELSE IF image.state = "corrupt" THEN [raised |-> UnidentifiedImageError, img |-> None]
         ELSE [raised |-> None, img |-> "RGB"]
    ELSE IF image.type = "bytes"
    THEN IF image.state = "corrupt" THEN [raised |-> UnidentifiedImageError, img |-> None]
         ELSE [raised |-> None, img |-> "RGB"]
    ELSE IF image.type = "ndarray" THEN [raised |-> None, img |-> "RGB"]
    ELSE IF image.type = "Image" THEN [raised |-> None, img |-> "RGB"]
    ELSE [raised |-> UnsupportedImageTypeError, img |-> None]

PreprocessImage(self, image) ==
    LET rgb == ToRGB(image) IN
    IF rgb.raised # None
    THEN [raised |-> rgb.raised, tensor |-> None]
    ELSE [raised |-> None,
          tensor |-> IF Truthy(self.transform) THEN self.transform ELSE FallbackTransform]

----------------------------------------------------------------------------
(* ImageDetectionModel.detect *)

ListGetItem(list, i) ==
    IF i >= 0 /\ i < Len(list) THEN [raised |-> None, value |-> list[i + 1]]
    ELSE IF i < 0 /\ i >= -Len(list) THEN [raised |-> None, value |-> list[Len(list) + i + 1]]
    ELSE [raised |-> IndexError, value |-> None]

IncludedStrict(score, threshold) == score > threshold

IncludedBelow(score, threshold) == score <= threshold

Included(score, threshold) == score >= threshold

EmitFront(detections, record) == <<record>> \o detections

Emit(detections, record) == Append(detections, record)

RECURSIVE DetectLoop(_, _, _, _)
DetectLoop(pred, i, threshold, detections) ==
    IF i > Min(Len(pred.boxes), Min(Len(pred.scores), Len(pred.labels)))
    THEN [raised |-> None, detections |-> detections]
    ELSE IF Included(pred.scores[i], threshold)
    THEN LET name == ListGetItem(ClassNames, pred.labels[i]) IN
         IF name.raised # None
         THEN [raised |-> name.raised, detections |-> <<>>]
         ELSE DetectLoop(pred, i + 1, threshold,
                         Emit(detections, [bbox     |-> pred.boxes[i],
                                           score    |-> pred.scores[i],
                                           label    |-> name.value,
                                           label_id |-> pred.labels[i]]))
    ELSE DetectLoop(pred, i + 1, threshold, detections)

DetectSelfReleasesModel(self) == [self EXCEPT !.model = None]

DetectSelf(self) == self

Detect(self, image, threshold) ==
    LET pre == PreprocessImage(self, image) IN
    IF pre.raised # None
    THEN [raised |-> pre.raised, detections |-> <<>>, inferences |-> 0, self |-> self]
    ELSE IF self.model = None
    THEN [raised |-> NotCallableError, detections |-> <<>>, inferences |-> 0, self |-> self]
    ELSE LET loop == DetectLoop(network, 1, threshold, <<>>) IN
         [raised     |-> loop.raised,
          detections |-> loop.detections,
          inferences |-> 1,
          self       |-> DetectSelf(self)]

----------------------------------------------------------------------------
(* detect.py: detect_image and main *)

OutputArgs == {None, "", "results.json"}

Results(image_path, detections) ==
    [image_path     |-> image_path,
     num_detections |-> Len(detections),
     detections     |-> detections]

RunDetection(image, confidence, output, cudaAvailable) ==
    LET made == New(DefaultModelName, None, cudaAvailable) IN
    IF made.raised # None
    THEN [outcome |-> "raise", code |-> 0, raised |-> made.raised, loaded |-> FALSE,
          detect_calls |-> 0, results |-> <<>>, file |-> <<>>]
    ELSE LET found == Detect(made.self, image, confidence) IN
         IF found.raised # None
         THEN [outcome |-> "raise", code |-> 0, raised |-> found.raised, loaded |-> TRUE,
               detect_calls |-> 1, results |-> <<>>, file |-> <<>>]
         ELSE LET results == Results(image.path, found.detections) IN
              [outcome |-> "return", code |-> 0, raised |-> None, loaded |-> TRUE,
               detect_calls |-> 1, results |-> <<results>>,
               file |-> IF Truthy(output) THEN <<results>> ELSE <<>>]

DetectImageNoPathCheck(image, confidence, output, cudaAvailable) ==
    RunDetection(image, confidence, output, cudaAvailable)

DetectImage(image, confidence, output, cudaAvailable) ==
    IF image.state = "missing"
    THEN [outcome |-> "SystemExit", code |-> 1, raised |-> None, loaded |-> FALSE,
          detect_calls |-> 0, results |-> <<>>, file |-> <<>>]
    ELSE RunDetection(image, confidence, output, cudaAvailable)

ValidConfidence(confidence) == 0 <= confidence /\ confidence <= ScoreUnits

Main(image, confidence, output, cudaAvailable) ==
    IF ~ValidConfidence(confidence)
    THEN [exit |-> 1, raised |-> None, loaded |-> FALSE, detect_calls |-> 0,
          results |-> <<>>, file |-> <<>>]
    ELSE LET run == DetectImage(image, confidence, output, cudaAvailable) IN
         [exit         |-> IF run.outcome = "SystemExit" THEN run.code
                           ELSE IF run.outcome = "raise" THEN 1
                           ELSE 0,
          raised       |-> run.raised,
          loaded       |-> run.loaded,
          detect_calls |-> run.detect_calls,
          results      |-> run.results,
          file         |-> run.file]

----------------------------------------------------------------------------
(* State machine.  A process either runs the command line entry point once *)
(* on the image, or uses the package as a library: it constructs a         *)
(* detector and calls detect on it with the image and any thresholds.      *)
(* `detector` is the caller's reference (empty until a construction        *)
(* succeeds), `call` the last library call and what it gave back, `cli`    *)
(* the outcome of the command line run.                                    *)

InitCall ==
    [op |-> "init", model_name |-> None, device |-> None,
     threshold |-> 0, raised |-> None, detections |-> <<>>, inferences |-> 0,
     self |-> BlankObject]

InitCli ==
    [ran |-> FALSE, confidence |-> 0, output |-> None,
     exit |-> 0, raised |-> None, loaded |-> FALSE, detect_calls |-> 0,
     results |-> <<>>, file |-> <<>>]

Init ==
    /\ subject \in Images
    /\ network \in Preds
    /\ detector = <<>>
    /\ call = InitCall
    /\ cli = InitCli

(* d = ImageDetectionModel(model_name, device): the caller constructs until *)
(* it holds a detector; "cuda" is only asked for where it is available.    *)
(* When __init__ raises, the assignment to d does not happen.              *)
Construct(model_name, device, cudaAvailable) ==
    /\ ~cli.ran
    /\ detector = <<>>
    /\ device = "cuda" => cudaAvailable
    /\ LET made == New(model_name, device, cudaAvailable) IN
       /\ call' = [InitCall EXCEPT !.op = "construct", !.model_name = model_name,
                                   !.device = device, !.raised = made.raised,
                                   !.self = made.self]
       /\ detector' = IF made.raised = None THEN <<made.self>> ELSE detector
    /\ UNCHANGED <<subject, network, cli>>

(* d.detect(subject, threshold) on the detector the caller holds. *)
DetectCall(threshold) ==
    /\ ~cli.ran
    /\ detector # <<>>
    /\ LET found == Detect(detector[1], subject, threshold) IN
       /\ call' = [InitCall EXCEPT !.op = "detect",
                                   !.threshold = threshold, !.raised = found.raised,
                                   !.detections = found.detections,
                                   !.inferences = found.inferences,
                                   !.self = found.self]
       /\ detector' = <<found.self>>
    /\ UNCHANGED <<subject, network, cli>>

(* python detect.py <subject> --confidence c [--output o]: the entry point *)
(* of a fresh process, which ends with it.                                 *)
MainRun(confidence, output, cudaAvailable) ==
    /\ ~cli.ran
    /\ call.op = "init"
    /\ subject.type = "str"
    /\ LET done == Main(subject, confidence, output, cudaAvailable) IN
       cli' = [ran |-> TRUE, confidence |-> confidence,
               output |-> output, exit |-> done.exit, raised |-> done.raised,
               loaded |-> done.loaded, detect_calls |-> done.detect_calls,
               results |-> done.results, file |-> done.file]
    /\ UNCHANGED <<subject, network, detector, call>>

Next ==
    \/ \E model_name \in ModelNames, device \in DeviceArgs, cudaAvailable \in BOOLEAN :
          Construct(model_name, device, cudaAvailable)
    \/ \E threshold \in Thresholds :
          DetectCall(threshold)
    \/ \E confidence \in Thresholds, output \in OutputArgs, cudaAvailable \in BOOLEAN :
          MainRun(confidence, output, cudaAvailable)

Spec == Init /\ [][Next]_vars

----------------------------------------------------------------------------
(* Properties *)

Range(s) == { s[i] : i \in DOMAIN s }

Returned == call.op = "detect" /\ call.raised = None

Candidates == 1..Len(network.scores)

TableIds == 0..(NumClasses - 1)

KeptIndices(threshold) ==
    SelectSeq([i \in Candidates |-> i], LAMBDA i : network.scores[i] >= threshold)

Carries(record, i) ==
    /\ record.bbox = network.boxes[i]
    /\ record.score = network.scores[i]
    /\ record.label_id = network.labels[i]

(* C1: whenever detect returns, its output is exactly the candidates whose *)
(* score is at least the threshold, in the network's candidate order: the  *)
(* k-th record carries the box, score and label of the k-th such candidate.*)
C1_OutputIsOrderedSubsequence ==
    Returned =>
        LET kept == KeptIndices(call.threshold) IN
        /\ Len(call.detections) = Len(kept)
        /\ \A k \in 1..Len(kept) : Carries(call.detections[k], kept[k])

(* C1 witness: detect returned at least one record after dropping an       *)
(* earlier candidate that scored below the threshold.                      *)
C1_Witness ==
    /\ Returned
    /\ Len(call.detections) >= 1
    /\ \E i, j \in Candidates :
          /\ i < j
          /\ network.scores[i] < call.threshold
          /\ network.scores[j] >= call.threshold

(* C2: when a candidate that passes the threshold has a label outside the  *)
(* 91-entry table (label < 0 or label >= 91), detect fails with the error  *)
(* for an out-of-bounds index and returns no record.                       *)
C2_OutOfBoundsLabelFails ==
    (/\ call.op = "detect"
     /\ subject.type \in AcceptedTypes
     /\ subject.state = "ok"
     /\ \E i \in Candidates :
           /\ network.scores[i] >= call.threshold
           /\ network.labels[i] \notin TableIds)
    => (call.raised = IndexError /\ call.detections = <<>>)

(* C3: no record returned by detect has label_id 0, the background entry.  *)
C3_NoBackgroundRecord ==
    call.op = "detect" =>
        \A k \in 1..Len(call.detections) : call.detections[k].label_id # 0

(* C4: constructing with a model identifier other than the supported one   *)
(* fails with the unsupported-model error, leaves the object without       *)
(* network and transform, and gives the caller no detector.                *)
C4_UnsupportedModelFailsCleanly ==
    [][(call'.op = "construct" /\ call'.model_name # DefaultModelName) =>
          /\ call'.raised = UnsupportedModelError
          /\ call'.self.model = None
          /\ call'.self.transform = None
          /\ detector' = detector
          /\ detector' = <<>>]_vars

(* C4 witness: a construction with an unsupported identifier has failed.   *)
C4_Witness ==
    /\ call.op = "construct"
    /\ call.model_name # DefaultModelName
    /\ call.raised # None
    /\ detector = <<>>

(* C5: raising the threshold only removes records: when detect returned    *)
(* for threshold t2, every record of it is a record of what detect returns *)
(* for any lower threshold t1 on the same image and detector.              *)
C5_ThresholdMonotone ==
    Returned =>
        \A t1 \in Thresholds :
            t1 < call.threshold =>
                LET lower == Detect(detector[1], subject, t1) IN
                lower.raised = None =>
                    Range(call.detections) \subseteq Range(lower.detections)

(* C5 witness: detect returned some records, and a lower threshold returns *)
(* strictly more.                                                          *)
C5_Witness ==
    /\ Returned
    /\ Len(call.detections) >= 1
    /\ \E t1 \in Thresholds :
          /\ t1 < call.threshold
          /\ Detect(detector[1], subject, t1).raised = None
          /\ Len(Detect(detector[1], subject, t1).detections) > Len(call.detections)

(* C6: a detect call leaves the detector as it was, and calling detect     *)
(* again on the detector it left, with the same image and threshold, gives *)
(* the same outcome.                                                       *)
C6_DetectIdempotent ==
    [][call'.op = "detect" =>
          /\ detector' = detector
          /\ LET again == Detect(detector'[1], subject', call'.threshold) IN
             /\ again.raised = call'.raised
             /\ again.detections = call'.detections]_vars

(* C6 witness: a detect call has returned records.                         *)
C6_Witness ==
    /\ Returned
    /\ detector # <<>>
    /\ Len(call.detections) >= 1
    /\ call.inferences = 1

(* C7: the command line run ends with a non-zero status and writes no      *)
(* result file when the image file is missing, the confidence is outside   *)
(* [0,1] or the detector raised; in the first two cases the model was not  *)
(* loaded and detect was not called.                                       *)
C7_CliFailures ==
    cli.ran =>
        /\ (subject.state = "missing" \/ cli.confidence < 0 \/ cli.confidence > ScoreUnits) =>
              /\ cli.exit # 0
              /\ ~cli.loaded
              /\ cli.detect_calls = 0
              /\ cli.file = <<>>
        /\ cli.raised # None =>
              /\ cli.exit # 0
              /\ cli.file = <<>>

(* C7 witness: a run with an output file requested on which the model was  *)
(* loaded and the detector then raised.                                    *)
C7_Witness ==
    /\ cli.ran
    /\ cli.output = "results.json"
    /\ cli.raised # None
    /\ cli.loaded
    /\ cli.exit = 1

(* C8: detect on an image that is not a path, bytes, pixel array or image  *)
(* object fails with the unsupported-image-type error, without invoking    *)
(* the network and without detections.                                     *)
C8_UnsupportedImageType ==
    (call.op = "detect" /\ subject.type \notin AcceptedTypes) =>
        /\ call.raised = UnsupportedImageTypeError
        /\ call.inferences = 0
        /\ call.detections = <<>>

(* C8 witness: detect was called on an unsupported input for whose pixels  *)
(* the network would have had candidates.                                  *)
C8_Witness ==
    /\ call.op = "detect"
    /\ subject.type \notin AcceptedTypes
    /\ Len(network.scores) >= 1

(* C9: when detect returns for threshold 0.0, the output has one record    *)
(* per candidate, the i-th carrying boxes[i], scores[i] and labels[i].     *)
C9_ZeroThresholdReturnsAll ==
    (Returned /\ call.threshold = 0) =>
        /\ Len(call.detections) = Len(network.scores)
        /\ \A i \in Candidates : Carries(call.detections[i], i)

(* C9 witness: detect returned for threshold 0.0 on at least two           *)
(* candidates, one of them scoring exactly 0.0.                            *)
C9_Witness ==
    /\ Returned
    /\ call.threshold = 0
    /\ Len(network.scores) >= 2
    /\ \E i \in Candidates : network.scores[i] = 0

(* C10: the result the driver builds has num_detections equal to the       *)
(* number of detections, and every detection has exactly the fields bbox   *)
(* (4 values), score, label and label_id, with label the entry of the      *)
(* label table at index label_id.                                          *)
C10_ResultSchema ==
    (cli.ran /\ cli.results # <<>>) =>
        LET results == cli.results[1] IN
        /\ results.num_detections = Len(results.detections)
        /\ \A k \in 1..Len(results.detections) :
              LET record == results.detections[k] IN
              /\ DOMAIN record = {"bbox", "score", "label", "label_id"}
              /\ Len(record.bbox) = 4
              /\ record.label_id \in TableIds
              /\ record.label = ClassNames[record.label_id + 1]

====
